---- MODULE Spec2Model ----
(***************************************************************************)
(* Model of src/src/slurm_autoscale.go: the Slurm resume/suspend hook that *)
(* reconciles the "pool" variable of a Terraform Cloud workspace.          *)
(*                                                                         *)
(* Every invocation of the program is one process running main() from top  *)
(* to bottom.  The remote workspace (its list of variables) is the only    *)
(* state the invocations share.  A variable's value is JSON text, modelled *)
(* as its sequence of lexical tokens.                                      *)
(***************************************************************************)
EXTENDS Integers, Sequences, FiniteSets, TLC

\* ------------------------------------------------------------------ bounds
MaxSpecLen == 2         \* longest expanded node list of one invocation

\* The invocations of the program: two, which may run one after the other or
\* overlap in any way.
Procs == {"inv1", "inv2"}

\* ------------------------------------------------------- values and tokens
Nodes == {"a", "b"}                 \* node names a node spec may denote
WorkspaceID == "ws-1"               \* the workspace the variables live in
PoolKey == "pool"                   \* slurm_autoscale.go:34

LBracket == "["
RBracket == "]"
Comma == ","
Space == " "
Null == "null"
Number == "1"

Nil == [nil |-> TRUE]               \* Go's nil pointer

\* a token that is a JSON string literal (named by its content)
IsString(tok) == tok \notin {LBracket, RBracket, Comma, Space, Null, Number}

\* the sequences over S of length at most n
RECURSIVE SeqsUpTo(_, _)
SeqsUpTo(S, n) ==
    IF n = 0 THEN {<<>>}
    ELSE LET shorter == SeqsUpTo(S, n - 1)
         IN  shorter \cup {Append(s, x) : s \in shorter, x \in S}

\* the orders in which a Go map with key set S may be iterated
Permutations_(S) ==
    {f \in [1..Cardinality(S) -> S] : \A x \in S : \E i \in DOMAIN f : f[i] = x}

Members(seq) == {seq[i] : i \in DOMAIN seq}

\* ------------------------------------------------------------ encoding/json
\* JSON whitespace between tokens is insignificant
StripSpace(text) == SelectSeq(text, LAMBDA tok : tok # Space)

\* json.Unmarshal([]byte(text), &pool) with pool a []string: null leaves pool
\* nil, an array of strings fills it (a null element is left the empty
\* string), anything else is an error
Unmarshal(text) ==
    LET s == StripSpace(text)
        n == Len(s)
        body == SubSeq(s, 2, n - 1)
        m == Len(body)
    IN  IF s = <<Null>> THEN [err |-> FALSE, pool |-> <<>>]
        ELSE IF n >= 2 /\ s[1] = LBracket /\ s[n] = RBracket
        THEN IF m = 0 THEN [err |-> FALSE, pool |-> <<>>]
             ELSE IF /\ m % 2 = 1
                     /\ \A i \in 1..m :
                           IF i % 2 = 1 THEN IsString(body[i]) \/ body[i] = Null
                                        ELSE body[i] = Comma
                  THEN [err |-> FALSE,
                        pool |-> [i \in 1..((m + 1) \div 2) |->
                                    IF body[2 * i - 1] = Null THEN ""
                                    ELSE body[2 * i - 1]]]
                  ELSE [err |-> TRUE, pool |-> <<>>]
        ELSE [err |-> TRUE, pool |-> <<>>]

RECURSIVE JoinComma(_)
JoinComma(keys) ==
    IF keys = <<>> THEN <<>>
    ELSE IF Len(keys) = 1 THEN <<keys[1]>>
    ELSE <<keys[1], Comma>> \o JoinComma(Tail(keys))

\* json.Marshal(keys) with keys a non-nil []string: ["k1","k2",...]
Marshal(keys) == <<LBracket>> \o JoinComma(keys) \o <<RBracket>>

\* ------------------------------------------------------------------ inputs
Commands == {"resume", "suspend", "status"}

\* A node spec is represented by the ordered node list it denotes; the
\* expansion itself is the hostlist library's.
NodeSpecs == SeqsUpTo(Nodes, MaxSpecLen)
ExpandNodeList(spec) == spec

\* os.Args[1:]: nothing, the command alone, or the command and the node spec
ArgVectors ==
    {<<>>} \cup {<<c>> : c \in Commands}
           \cup {<<c, s>> : c \in Commands, s \in NodeSpecs}

\* values the pool variable may hold before any invocation
InitialValues ==
    { <<LBracket, RBracket>>,
      <<LBracket, "c", RBracket>>,
      <<LBracket, "a", Comma, "b", RBracket>>,
      <<LBracket, "b", Comma, Space, "a", RBracket>>,
      <<LBracket, "a", Comma, "a", RBracket>>,
      <<Null>>,
      <<"a">>,
      <<LBracket, "a", Comma, RBracket>>,
      <<LBracket, Number, RBracket>>,
      <<>> }

OtherVariable == [ID |-> "var-1", Key |-> "region", Value |-> <<"a">>]
PoolVariable(v) == [ID |-> "var-2", Key |-> PoolKey, Value |-> v]


\* ------------------------------------------------------------------- state
VARIABLES
    store,      \* remote: the workspace's variables, in listing order
    store0,     \* the workspace's variables before any invocation
    pc,         \* per invocation: the step of main() it is at
    exit,       \* per invocation: "none" while running, else how it ended
    args,       \* per invocation: os.Args[1:]
    tfe_pool,   \* per invocation: the variable found in the listing, or Nil
    pool_set,   \* per invocation: the working set
    value,      \* per invocation: the serialized new pool
    tfe_pool2,  \* per invocation: what Variables.Update returned, or Nil
    err,        \* per invocation: the error Variables.Update returned
    report,     \* per invocation: the line logged after the update
    calls,      \* per invocation: the remote calls issued, in order
    failed,     \* per invocation: the remote call that returned an error
    wrote,      \* per invocation: the writes the store applied for it
    pred        \* per invocation: the invocations that had ended when it began

vars == <<store, store0, pc, exit, args, tfe_pool, pool_set, value, tfe_pool2,
          err, report, calls, failed, wrote, pred>>

locals == <<args, tfe_pool, pool_set, value, tfe_pool2, err, report>>

Running(p) == exit[p] = "none"
Ended(p) == exit[p] # "none"

\* ------------------------------------------------------- the remote store
\* Variables.List: the workspace's variables
ListItems(s) == s

\* mutant: the update lands on the first listed variable, whatever the ID
UpdateStoreFirst(s, id, v) ==
    [i \in DOMAIN s |-> IF i = 1 THEN [s[i] EXCEPT !.Value = v] ELSE s[i]]

\* Variables.Update(workspace, id, Value): last write wins, no version check
UpdateStore(s, id, v) ==
    [i \in DOMAIN s |-> IF s[i].ID = id THEN [s[i] EXCEPT !.Value = v] ELSE s[i]]

\* the value the pool variable holds in store s (Nil when there is none)
PoolValue(s) ==
    IF \E i \in DOMAIN s : s[i].Key = PoolKey
    THEN s[CHOOSE i \in DOMAIN s : s[i].Key = PoolKey].Value
    ELSE Nil

\* --------------------------------------------------------- pieces of main()
\* lines 32-38: the first listed variable whose key is "pool", else nil
FindPool(items) ==
    IF \E i \in DOMAIN items : items[i].Key = PoolKey
    THEN items[CHOOSE i \in DOMAIN items :
                   /\ items[i].Key = PoolKey
                   /\ \A j \in 1..(i - 1) : items[j].Key # PoolKey]
    ELSE Nil

\* lines 48-51: the set of the parsed names
MakeSet(pool) == Members(pool)

\* mutant: resume adds only the first expanded node
ApplyCommandResumeFirst(cmd, set, nodes) ==
    IF cmd = "resume" THEN set \cup (IF nodes = <<>> THEN {} ELSE {nodes[1]})
    ELSE IF cmd = "suspend" THEN set \ Members(nodes)
    ELSE set

\* mutant: resume flips the membership of every expanded node
ApplyCommandToggle(cmd, set, nodes) ==
    IF cmd = "resume" THEN (set \cup Members(nodes)) \ (set \cap Members(nodes))
    ELSE IF cmd = "suspend" THEN set \ Members(nodes)
    ELSE set

\* mutant: suspend deletes only the first expanded node
ApplyCommandSuspendFirst(cmd, set, nodes) ==
    IF cmd = "resume" THEN set \cup Members(nodes)
    ELSE IF cmd = "suspend" THEN set \ (IF nodes = <<>> THEN {} ELSE {nodes[1]})
    ELSE set

\* mutant: every command other than resume deletes
ApplyCommandElseSuspend(cmd, set, nodes) ==
    IF cmd = "resume" THEN set \cup Members(nodes)
    ELSE set \ Members(nodes)

\* lines 55-63: add the nodes on resume, delete them on suspend, else nothing
ApplyCommand(cmd, set, nodes) ==
    IF cmd = "resume" THEN set \cup Members(nodes)
    ELSE IF cmd = "suspend" THEN set \ Members(nodes)
    ELSE set

\* lines 65-70: the keys of the map, in the order the map iteration yields them
MapKeys(set) == Permutations_(set)

\* lines 79-83: the old and the returned value compared as strings
ReportLine(old, new) == IF old # new THEN "Updating pool" ELSE "no change"

\* ------------------------------------------------------------------- steps
Init ==
    /\ store \in {<<OtherVariable>>}
                 \cup {<<OtherVariable, PoolVariable(v)>> : v \in InitialValues}
    /\ store0 = store
    /\ pc = [p \in Procs |-> "Startup"]
    /\ exit = [p \in Procs |-> "none"]
    /\ args = [p \in Procs |-> <<>>]
    /\ tfe_pool = [p \in Procs |-> Nil]
    /\ pool_set = [p \in Procs |-> {}]
    /\ value = [p \in Procs |-> <<>>]
    /\ tfe_pool2 = [p \in Procs |-> Nil]
    /\ err = [p \in Procs |-> FALSE]
    /\ report = [p \in Procs |-> "none"]
    /\ calls = [p \in Procs |-> <<>>]
    /\ failed = [p \in Procs |-> "none"]
    /\ wrote = [p \in Procs |-> <<>>]
    /\ pred = [p \in Procs |-> {}]

\* lines 15-25: the process starts; TFE_WORKSPACE_ID must be set and the
\* client must be constructible
Startup(p) ==
    /\ pc[p] = "Startup" /\ Running(p)
    /\ \E env \in {"", WorkspaceID}, clientErr \in BOOLEAN :
          IF env = "" \/ clientErr
          THEN /\ exit' = [exit EXCEPT ![p] = "fatal"]
               /\ pc' = pc
          ELSE /\ pc' = [pc EXCEPT ![p] = "ReadByID"]
               /\ exit' = exit
    /\ pred' = [pred EXCEPT ![p] = {q \in Procs : Ended(q)}]
    /\ UNCHANGED <<store, store0, locals, calls, failed, wrote>>

\* lines 26-29: Workspaces.ReadByID; its error is fatal
ReadWorkspace(p) ==
    /\ pc[p] = "ReadByID" /\ Running(p)
    /\ calls' = [calls EXCEPT ![p] = Append(@, "ReadByID")]
    /\ \E callErr \in BOOLEAN :
          IF callErr
          THEN /\ failed' = [failed EXCEPT ![p] = "ReadByID"]
               /\ exit' = [exit EXCEPT ![p] = "fatal"]
               /\ pc' = pc
          ELSE /\ pc' = [pc EXCEPT ![p] = "List"]
               /\ UNCHANGED <<failed, exit>>
    /\ UNCHANGED <<store, store0, locals, wrote, pred>>

\* mutant: a failed listing is tried again
ListVariablesRetry(p) ==
    /\ pc[p] = "List" /\ Running(p)
    /\ calls' = [calls EXCEPT ![p] = Append(@, "List")]
    /\ \E callErr \in BOOLEAN :
          IF callErr
          THEN /\ failed' = [failed EXCEPT ![p] = "List"]
               /\ UNCHANGED <<pc, exit, tfe_pool>>
          ELSE /\ tfe_pool' = [tfe_pool EXCEPT ![p] = FindPool(ListItems(store))]
               /\ IF tfe_pool'[p] = Nil
                  THEN /\ exit' = [exit EXCEPT ![p] = "fatal"]
                       /\ pc' = pc
                  ELSE /\ pc' = [pc EXCEPT ![p] = "Compute"]
                       /\ exit' = exit
               /\ failed' = failed
    /\ UNCHANGED <<store, store0, args, pool_set, value, tfe_pool2, err, report,
                   wrote, pred>>

\* lines 31-42: Variables.List with its error discarded (on an error the
\* client returns a nil list, and var_list.Items panics), then the search
\* for the "pool" variable; not finding it is fatal
ListVariables(p) ==
    /\ pc[p] = "List" /\ Running(p)
    /\ calls' = [calls EXCEPT ![p] = Append(@, "List")]
    /\ \E callErr \in BOOLEAN :
          IF callErr
          THEN /\ failed' = [failed EXCEPT ![p] = "List"]
               /\ exit' = [exit EXCEPT ![p] = "panic"]
               /\ UNCHANGED <<pc, tfe_pool>>
          ELSE /\ tfe_pool' = [tfe_pool EXCEPT ![p] = FindPool(ListItems(store))]
               /\ IF tfe_pool'[p] = Nil
                  THEN /\ exit' = [exit EXCEPT ![p] = "fatal"]
                       /\ pc' = pc
                  ELSE /\ pc' = [pc EXCEPT ![p] = "Compute"]
                       /\ exit' = exit
               /\ failed' = failed
    /\ UNCHANGED <<store, store0, args, pool_set, value, tfe_pool2, err, report,
                   wrote, pred>>

\* mutant: a value that does not parse is reset to the empty pool before the
\* fatal exit
ComputeResetting(p) ==
    /\ pc[p] = "Compute" /\ Running(p)
    /\ \E argv \in ArgVectors : args' = [args EXCEPT ![p] = argv]
    /\ LET parsed == Unmarshal(tfe_pool[p].Value)
       IN  IF parsed.err
           THEN /\ exit' = [exit EXCEPT ![p] = "fatal"]
                /\ store' = UpdateStore(store, tfe_pool[p].ID, Marshal(<<>>))
                /\ wrote' = [wrote EXCEPT ![p] =
                      Append(@, [old |-> PoolValue(store), new |-> Marshal(<<>>)])]
                /\ UNCHANGED <<pc, pool_set, value>>
           ELSE IF Len(args'[p]) < 2
           THEN /\ exit' = [exit EXCEPT ![p] = "panic"]
                /\ pool_set' = [pool_set EXCEPT ![p] = MakeSet(parsed.pool)]
                /\ UNCHANGED <<pc, value, store, wrote>>
           ELSE /\ pool_set' = [pool_set EXCEPT ![p] =
                       ApplyCommand(args'[p][1], MakeSet(parsed.pool),
                                    ExpandNodeList(args'[p][2]))]
                /\ \E keys \in MapKeys(pool_set'[p]) :
                      value' = [value EXCEPT ![p] = Marshal(keys)]
                /\ pc' = [pc EXCEPT ![p] = "Update"]
                /\ UNCHANGED <<exit, store, wrote>>
    /\ UNCHANGED <<store0, tfe_pool, tfe_pool2, err, report, calls,
                   failed, pred>>

\* lines 44-76: parse the value (a parse error is fatal), build the set,
\* expand os.Args[2] (indexing a missing argument panics), apply os.Args[1],
\* collect the keys in map order and serialize them.  The arguments the
\* process was started with are not looked at before line 54: they are
\* drawn here.
Compute(p) ==
    /\ pc[p] = "Compute" /\ Running(p)
    /\ \E argv \in ArgVectors : args' = [args EXCEPT ![p] = argv]
    /\ LET parsed == Unmarshal(tfe_pool[p].Value)
       IN  IF parsed.err
           THEN /\ exit' = [exit EXCEPT ![p] = "fatal"]
                /\ UNCHANGED <<pc, pool_set, value>>
           ELSE IF Len(args'[p]) < 2
           THEN /\ exit' = [exit EXCEPT ![p] = "panic"]
                /\ pool_set' = [pool_set EXCEPT ![p] = MakeSet(parsed.pool)]
                /\ UNCHANGED <<pc, value>>
           ELSE /\ pool_set' = [pool_set EXCEPT ![p] =
                       ApplyCommand(args'[p][1], MakeSet(parsed.pool),
                                    ExpandNodeList(args'[p][2]))]
                /\ \E keys \in MapKeys(pool_set'[p]) :
                      value' = [value EXCEPT ![p] = Marshal(keys)]
                /\ pc' = [pc EXCEPT ![p] = "Update"]
                /\ exit' = exit
    /\ UNCHANGED <<store, store0, tfe_pool, tfe_pool2, err, report, calls,
                   failed, wrote, pred>>

\* mutant: the update is skipped when the new value equals the old one
UpdateVariableIfChanged(p) ==
    /\ pc[p] = "Update" /\ Running(p)
    /\ IF value[p] = tfe_pool[p].Value
       THEN /\ tfe_pool2' = [tfe_pool2 EXCEPT ![p] = tfe_pool[p]]
            /\ UNCHANGED <<store, wrote, calls, err, failed>>
       ELSE /\ calls' = [calls EXCEPT ![p] = Append(@, "Update")]
            /\ \E callErr \in BOOLEAN, applied \in BOOLEAN :
                  /\ callErr \/ applied
                  /\ IF applied
                     THEN /\ store' = UpdateStore(store, tfe_pool[p].ID, value[p])
                          /\ wrote' = [wrote EXCEPT ![p] =
                                Append(@, [old |-> PoolValue(store),
                                           new |-> value[p]])]
                     ELSE UNCHANGED <<store, wrote>>
                  /\ IF callErr
                     THEN /\ tfe_pool2' = [tfe_pool2 EXCEPT ![p] = Nil]
                          /\ err' = [err EXCEPT ![p] = TRUE]
                          /\ failed' = [failed EXCEPT ![p] = "Update"]
                     ELSE /\ tfe_pool2' = [tfe_pool2 EXCEPT ![p] =
                                [tfe_pool[p] EXCEPT !.Value = value[p]]]
                          /\ err' = [err EXCEPT ![p] = FALSE]
                          /\ failed' = failed
    /\ pc' = [pc EXCEPT ![p] = "Report"]
    /\ UNCHANGED <<store0, exit, args, tfe_pool, pool_set, value, report, pred>>

\* line 77: Variables.Update of the found variable's ID, whatever the new
\* value is.  On success the store holds the value and returns the updated
\* variable; on an error the client returns nil and the error, and the store
\* may or may not have applied the write.
UpdateVariable(p) ==
    /\ pc[p] = "Update" /\ Running(p)
    /\ calls' = [calls EXCEPT ![p] = Append(@, "Update")]
    /\ \E callErr \in BOOLEAN, applied \in BOOLEAN :
          /\ callErr \/ applied
          /\ IF applied
             THEN /\ store' = UpdateStore(store, tfe_pool[p].ID, value[p])
                  /\ wrote' = [wrote EXCEPT ![p] =
                        Append(@, [old |-> PoolValue(store), new |-> value[p]])]
             ELSE UNCHANGED <<store, wrote>>
          /\ IF callErr
             THEN /\ tfe_pool2' = [tfe_pool2 EXCEPT ![p] = Nil]
                  /\ err' = [err EXCEPT ![p] = TRUE]
                  /\ failed' = [failed EXCEPT ![p] = "Update"]
             ELSE /\ tfe_pool2' = [tfe_pool2 EXCEPT ![p] =
                        [tfe_pool[p] EXCEPT !.Value = value[p]]]
                  /\ err' = [err EXCEPT ![p] = FALSE]
                  /\ failed' = failed
    /\ pc' = [pc EXCEPT ![p] = "Report"]
    /\ UNCHANGED <<store0, exit, args, tfe_pool, pool_set, value, report, pred>>

\* lines 79-88: tfe_pool2.Value is read before err is looked at (a nil
\* tfe_pool2 panics); the old and the returned value are compared as strings
\* and the outcome logged; only then is the update's error fatal, otherwise
\* main returns (exit 0)
ReportAndExit(p) ==
    /\ pc[p] = "Report" /\ Running(p)
    /\ IF tfe_pool2[p] = Nil
       THEN /\ exit' = [exit EXCEPT ![p] = "panic"]
            /\ report' = report
       ELSE /\ report' = [report EXCEPT ![p] =
                  ReportLine(tfe_pool[p].Value, tfe_pool2[p].Value)]
            /\ exit' = [exit EXCEPT ![p] = IF err[p] THEN "fatal" ELSE "ok"]
    /\ UNCHANGED <<store, store0, pc, args, tfe_pool, pool_set, value, tfe_pool2,
                   err, calls, failed, wrote, pred>>

Next ==
    \E p \in Procs :
        \/ Startup(p)
        \/ ReadWorkspace(p)
        \/ ListVariables(p)
        \/ Compute(p)
        \/ UpdateVariable(p)
        \/ ReportAndExit(p)

Spec == Init /\ [][Next]_vars

\* ------------------------------------------------------------- properties
Succeeded(p) == exit[p] = "ok"
Count(seq, x) == Cardinality({i \in DOMAIN seq : seq[i] = x})
SetOf(text) == Members(Unmarshal(text).pool)

\* what the invocation was given: the pool it read, its command, its nodes
OrigSet(p) == SetOf(tfe_pool[p].Value)
Cmd(p) == args[p][1]
NodeList(p) == ExpandNodeList(args[p][2])
NodeSet(p) == Members(NodeList(p))
\* the member set of the value the store took from the invocation
WrittenSet(p) == SetOf(wrote[p][1].new)
OnlyWriters(S) == \A r \in Procs \ S : wrote[r] = <<>>

\* C1: a successful invocation has written exactly one value, a string array
\* whose member set is the original set plus the expanded nodes on resume
\* and the original set minus the expanded nodes on suspend, whatever the
\* order of the expanded nodes.
C1_WrittenMembers ==
    \A p \in Procs :
        Succeeded(p) =>
            /\ Len(wrote[p]) = 1
            /\ ~Unmarshal(wrote[p][1].new).err
            /\ Cmd(p) = "resume" => WrittenSet(p) = OrigSet(p) \cup NodeSet(p)
            /\ Cmd(p) = "suspend" => WrittenSet(p) = OrigSet(p) \ NodeSet(p)

\* a resume of <<b, a>> on the pool ["c"] has written the set {a, b, c}
C1_Witness ==
    \E p \in Procs :
        /\ Succeeded(p)
        /\ args[p] = <<"resume", <<"b", "a">>>>
        /\ OrigSet(p) = {"c"}
        /\ WrittenSet(p) = {"a", "b", "c"}

\* C2 (as claimed): a successful invocation reports "no change" exactly
\* when the computed set equals the original set, and "Updating pool"
\* exactly when they differ.
C2_ReportMatchesSets ==
    \A p \in Procs :
        Succeeded(p) =>
            /\ report[p] = "no change" <=> pool_set[p] = OrigSet(p)
            /\ report[p] = "Updating pool" <=> pool_set[p] # OrigSet(p)

\* C3: an invocation that ended fatally because no "pool" variable was
\* listed or because the value did not parse has issued no update and
\* written nothing; if no other invocation wrote either, the workspace's
\* variables are what they were before.
FatalBeforeUpdate(p) == exit[p] = "fatal" /\ pc[p] \in {"List", "Compute"}
C3_NoWriteOnEarlyFatal ==
    \A p \in Procs :
        FatalBeforeUpdate(p) =>
            /\ wrote[p] = <<>>
            /\ Count(calls[p], "Update") = 0
            /\ OnlyWriters({p}) => store = store0

\* the value "a" (JSON, but no array) was read, the run ended fatally at the
\* parse, and the variable still holds it
C3_Witness ==
    \E p \in Procs :
        /\ FatalBeforeUpdate(p)
        /\ pc[p] = "Compute"
        /\ tfe_pool[p].Value = <<"a">>
        /\ PoolValue(store) = <<"a">>

\* C4 (as claimed): an invocation whose remote call returned an error has
\* ended at that call with a diagnosed fatal exit, and has reported nothing.
C4_ErrorFatalAtCall ==
    \A p \in Procs :
        failed[p] # "none" =>
            /\ exit[p] = "fatal"
            /\ pc[p] = failed[p]
            /\ report[p] = "none"

\* C5 (as claimed): an invocation that has ended, however it ended, has
\* read the pool variable exactly once and written it at most once.
C5_ExactlyOneRead ==
    \A p \in Procs :
        Ended(p) =>
            /\ Count(calls[p], "List") = 1
            /\ Count(calls[p], "Update") <= 1

\* C5 (amended): an invocation reads the pool variable at most once and
\* writes it at most once, the read before the write; it has read exactly
\* once when it ended after resolving the workspace.
C5_AtMostOneReadOneWrite ==
    \A p \in Procs :
        /\ Count(calls[p], "List") <= 1
        /\ Count(calls[p], "Update") <= 1
        /\ Len(wrote[p]) <= Count(calls[p], "Update")
        /\ \A i \in DOMAIN calls[p] :
              calls[p][i] = "Update" => \E j \in 1..(i - 1) : calls[p][j] = "List"
        /\ (Ended(p) /\ pc[p] \notin {"Startup", "ReadByID"}) =>
              Count(calls[p], "List") = 1

\* an invocation that ended fatally at the workspace read: no read of the
\* variable, while the other one read and wrote once
C5_Witness ==
    \E p, q \in Procs :
        /\ exit[p] = "fatal" /\ pc[p] = "ReadByID"
        /\ Count(calls[p], "List") = 0
        /\ Succeeded(q)
        /\ calls[q] = <<"ReadByID", "List", "Update">>

\* q ran after p had ended, and nobody else wrote
InSequence(p, q) ==
    /\ p # q
    /\ Succeeded(p) /\ Succeeded(q)
    /\ p \in pred[q]
    /\ OnlyWriters({p, q})

\* C6: two successful resume invocations with the same node spec, the second
\* begun after the first ended, leave the pool variable with the member set
\* the first one left.
C6_ResumeIdempotent ==
    \A p, q \in Procs :
        (/\ InSequence(p, q)
         /\ Cmd(p) = "resume" /\ Cmd(q) = "resume"
         /\ args[p][2] = args[q][2]) =>
            /\ WrittenSet(q) = WrittenSet(p)
            /\ SetOf(PoolValue(store)) = WrittenSet(p)

\* resume of <<a, b>> twice on the pool ["c"]
C6_Witness ==
    \E p, q \in Procs :
        /\ InSequence(p, q)
        /\ args[p] = <<"resume", <<"a", "b">>>>
        /\ args[q] = args[p]
        /\ OrigSet(p) = {"c"}
        /\ SetOf(PoolValue(store)) = {"a", "b", "c"}

\* C7: on an empty pool, a successful resume of S and then, after it ended,
\* a successful suspend of the same S leave the pool variable empty.
C7_ResumeThenSuspend ==
    \A p, q \in Procs :
        (/\ InSequence(p, q)
         /\ Cmd(p) = "resume" /\ Cmd(q) = "suspend"
         /\ args[p][2] = args[q][2]
         /\ OrigSet(p) = {}) =>
            /\ WrittenSet(q) = {}
            /\ PoolValue(store) = Marshal(<<>>)

\* resume then suspend of <<a, b>>: the pool held both, and is empty again
C7_Witness ==
    \E p, q \in Procs :
        /\ InSequence(p, q)
        /\ args[p] = <<"resume", <<"a", "b">>>>
        /\ args[q] = <<"suspend", <<"a", "b">>>>
        /\ OrigSet(p) = {}
        /\ WrittenSet(p) = {"a", "b"}
        /\ PoolValue(store) = Marshal(<<>>)

\* C8: when two successful invocations do not overlap, the pool variable
\* ends with the second command applied to the result of the first; a final
\* pool that lacks the effect of one of them is reached only by overlapping
\* invocations (the witness).
C8_SequentialReflectsBoth ==
    \A p, q \in Procs :
        InSequence(p, q) =>
            /\ OrigSet(q) = WrittenSet(p)
            /\ WrittenSet(q) =
                  ApplyCommand(Cmd(q),
                               ApplyCommand(Cmd(p), OrigSet(p), NodeList(p)),
                               NodeList(q))
            /\ SetOf(PoolValue(store)) = WrittenSet(q)

\* resume(a) and resume(b) on the empty pool, both reading [] before either
\* wrote, both successful: the final pool lacks a
C8_LostUpdate ==
    \E p, q \in Procs :
        /\ p # q
        /\ Succeeded(p) /\ Succeeded(q)
        /\ args[p] = <<"resume", <<"a">>>>
        /\ args[q] = <<"resume", <<"b">>>>
        /\ tfe_pool[p].Value = Marshal(<<>>)
        /\ tfe_pool[q].Value = Marshal(<<>>)
        /\ wrote[q][1].old = Marshal(<<"a">>)
        /\ PoolValue(store) = Marshal(<<"b">>)

\* C9: no invocation gets past the update step without issuing the update,
\* and a successful one has written its value, also when the value is the
\* one it read; an invocation at the update step can always take it.
PastUpdate(p) == pc[p] = "Report"
C9_WriteUnguarded ==
    \A p \in Procs :
        /\ PastUpdate(p) => Count(calls[p], "Update") = 1
        /\ (PastUpdate(p) /\ failed[p] = "none") =>
              /\ Len(wrote[p]) = 1
              /\ wrote[p][1].new = value[p]
        /\ (pc[p] = "Update" /\ Running(p)) => ENABLED UpdateVariable(p)

\* an invocation that changed nothing (it read ["a"] and computed ["a"])
\* still wrote, replacing the value another invocation had written meanwhile
C9_Witness ==
    \E p \in Procs :
        /\ Succeeded(p)
        /\ report[p] = "no change"
        /\ value[p] = tfe_pool[p].Value
        /\ Len(wrote[p]) = 1
        /\ wrote[p][1].old # wrote[p][1].new

\* C10: with a command that is neither resume nor suspend the working set
\* is the original set for every node spec, the value computed and written
\* has the original member set, and the invocation does not end at the
\* computation unless the value it read does not parse.
OtherCommand(p) == Len(args[p]) = 2 /\ Cmd(p) \notin {"resume", "suspend"}
C10_OtherCommandNoOp ==
    \A p \in Procs :
        OtherCommand(p) =>
            /\ (pc[p] = "Compute" /\ Ended(p)) =>
                  Unmarshal(tfe_pool[p].Value).err
            /\ pc[p] \in {"Update", "Report"} =>
                  /\ pool_set[p] = OrigSet(p)
                  /\ SetOf(value[p]) = OrigSet(p)
                  /\ \A i \in DOMAIN wrote[p] : SetOf(wrote[p][i].new) = OrigSet(p)

\* "status" with a node spec naming members of the pool {a, b}: the run
\* succeeded and wrote {a, b}
C10_Witness ==
    \E p \in Procs :
        /\ Succeeded(p)
        /\ args[p] = <<"status", <<"a", "b">>>>
        /\ OrigSet(p) = {"a", "b"}
        /\ WrittenSet(p) = {"a", "b"}

====
